---------------------------- MODULE Spec2Model ----------------------------
(***************************************************************************)
(* Timing side-channel tag search of program.py (and the narrowing loop of *)
(* program2.py).                                                           *)
(*                                                                         *)
(* Strings are sequences of one-character strings.  Times are integers in  *)
(* ticks of 1/TicksPerMs millisecond: with TEST_SAMPLE_SIZE samples of a   *)
(* whole number of milliseconds each, the mean of the samples, a tenth of  *)
(* a latency that is such a mean (HTTP_LATENCY_THRESHOLD_FACTOR = 0.1) and *)
(* one and a half times it (HTTP_LATENCY_TIMOUT_FACTOR = 1.5) are whole    *)
(* numbers of ticks, so the arithmetic below is the exact arithmetic of    *)
(* the program's formulas (floating-point rounding is not modelled).       *)
(***************************************************************************)
EXTENDS Integers, Sequences, FiniteSets, TLC

VARIABLES
    pc,          \* where the session is: "main", "collect", "completed", "aborted", "nolatency"
    tag_prefix,  \* run()'s tag_prefix: the confirmed bytes
    latency,     \* run()'s latency argument, in ticks
    pending,     \* candidate bytes whose future as_completed has not yet yielded
    auth_ok,     \* run()'s auth_ok: the tags classified tag_ok in this round, in order
    auth_not_ok, \* number of entries of run()'s auth_not_ok
    url,         \* the wire tag of the URL run() returned (<<>> before)
    round,       \* number of run() invocations so far (recursion depth)
    stalls,      \* history: consecutive finished rounds that did not advance the prefix
    last,        \* history: the Auth the main thread looked at last
    calibrated,  \* history: [seq |-> calibrations run so far, mean |-> mean the last one measured, down |-> every attempt of it failed]
    exited,      \* history: network attempts made by the Auth whose exit(-1) ended the session (0: none)
    dispatched,  \* history: number of candidate probes submitted to the pool so far
    secret,      \* the server's secret bytes (noise-free oracle only)
    auth,        \* the Auth object under test (unit specifications only)
    out,         \* what the operation applied to auth produced (unit specifications only)
    req,         \* one call of Auth._request, attempt by attempt (request specification only)
    plan,        \* what the network does to each distinguished candidate of a round (order specification only)
    p2           \* program2.py's run(): [pc, latency, auths, iterations, probes] (narrowing specification only)

vars == <<pc, tag_prefix, latency, pending, auth_ok, auth_not_ok, url, round,
          stalls, last, calibrated, exited, dispatched, secret, auth, out,
          req, plan, p2>>

sessionVars == <<pc, tag_prefix, latency, pending, auth_ok, auth_not_ok, url, round,
                 stalls, last, calibrated, exited, dispatched, secret>>

(***************************************************************************)
(* Program constants.                                                      *)
(***************************************************************************)
HTTP_MAX_RETRIES == 100
\* HTTP_LATENCY_THRESHOLD_FACTOR = 0.1 = 1 / HTTP_LATENCY_THRESHOLD_DIV
HTTP_LATENCY_THRESHOLD_DIV == 10
\* HTTP_LATENCY_TIMOUT_FACTOR = 1.5 = HTTP_LATENCY_TIMOUT_NUM / HTTP_LATENCY_TIMOUT_DEN
HTTP_LATENCY_TIMOUT_NUM == 3
HTTP_LATENCY_TIMOUT_DEN == 2
TEST_SAMPLE_SIZE == 4
CONCURRENT_WORKERS == 8
tag_max_length == 32
\* range(256) of full_byte_range_with_prefix
BYTE_RANGE == 256
\* timeout = 1337.0 when the computed timeout is 0.0
FALLBACK_TIMEOUT == 1337
\* the latency 1337 handed to the calibration Auth(user, 0, [0x0], 1337)
CALIBRATION_LATENCY_MS == 1337
\* delay = float(100) of __main__
DELAY_MS == 100
STATUS_OK == 200

TicksPerMs == HTTP_LATENCY_THRESHOLD_DIV * TEST_SAMPLE_SIZE
Ms(x) == x * TicksPerMs

(***************************************************************************)
(* Tag codec: hex(), pad_string_with_zero, Auth.tag_as_string.             *)
(***************************************************************************)
HexDigits == <<"0", "1", "2", "3", "4", "5", "6", "7",
               "8", "9", "a", "b", "c", "d", "e", "f">>

\* the digits of n >= 0 in base 16, most significant first, no leading zero
RECURSIVE hexdigits(_)
hexdigits(n) ==
    IF n < 16 THEN <<HexDigits[n + 1]>>
    ELSE Append(hexdigits(n \div 16), HexDigits[(n % 16) + 1])

\* Python's hex(): "0x.." for n >= 0, "-0x.." for n < 0
hex(n) ==
    IF n < 0 THEN <<"-", "0", "x">> \o hexdigits(-n)
    ELSE <<"0", "x">> \o hexdigits(n)

\* input_str += '0' while it is shorter than target_length: pads on the RIGHT
RECURSIVE pad_string_with_zero(_, _)
pad_string_with_zero(input_str, target_length) ==
    IF Len(input_str) < target_length
    THEN pad_string_with_zero(Append(input_str, "0"), target_length)
    ELSE input_str

\* isinstance(item, int)
IsInt(item) == item \in Int

\* one iteration of the loop of tag_as_string: the text appended for one element
tag_element_string(item) ==
    LET hex_value == IF IsInt(item) THEN item ELSE 0
        converted == hex(hex_value)
        stripped  == SubSeq(converted, 3, Len(converted))   \* hex_value[2:]
    IN  pad_string_with_zero(stripped, 2)

RECURSIVE tag_body_string(_)
tag_body_string(tag) ==
    IF tag = <<>> THEN <<>>
    ELSE tag_body_string(SubSeq(tag, 1, Len(tag) - 1)) \o tag_element_string(tag[Len(tag)])

tag_as_string(tag) == pad_string_with_zero(tag_body_string(tag), tag_max_length)

\* len([item for item in self.tag if isinstance(item, int)])
_tag_length(tag) == Cardinality({i \in 1..Len(tag) : IsInt(tag[i])})

(***************************************************************************)
(* Auth: an object is a record [delay, tag, latency, test_results]; a      *)
(* TestResult is [status_code, elapsed_time].  The url of an Auth is       *)
(* BASE_URL, int(delay), user and tag_as_string(); only the tag varies     *)
(* within a session, so the url is represented by its wire tag.            *)
(***************************************************************************)
Auth_url(a) == tag_as_string(a.tag)

RECURSIVE SumElapsed(_)
SumElapsed(results) ==
    IF results = <<>> THEN 0
    ELSE results[1].elapsed_time + SumElapsed(Tail(results))

\* fmean of the elapsed times, 0.0 without results
elapsed_time_mean(a) ==
    IF a.test_results # <<>>
    THEN SumElapsed(a.test_results) \div Len(a.test_results)
    ELSE 0

_threshold_base(a) == a.delay * _tag_length(a.tag) + a.latency

_threshold_lower(a) == _threshold_base(a) - (a.latency \div HTTP_LATENCY_THRESHOLD_DIV)

_threshold_upper(a) == _threshold_base(a) + (a.latency \div HTTP_LATENCY_THRESHOLD_DIV)

\* program2.py's Auth.ok on the samples: a slow answer counts as success too
ok_or_slow(a) ==
    \/ \E i \in 1..Len(a.test_results) : a.test_results[i].status_code = STATUS_OK
    \/ \E i \in 1..Len(a.test_results) :
          a.test_results[i].elapsed_time
             >= a.delay * _tag_length(a.tag) + a.latency
                - (a.latency \div HTTP_LATENCY_THRESHOLD_DIV)

\* any(r.status_code == 200 for r in self.test_results)
ok(a) == \E i \in 1..Len(a.test_results) : a.test_results[i].status_code = STATUS_OK

\* the band with its end points
tag_ok_closed(a) ==
    LET mean == elapsed_time_mean(a)
    IN  mean >= _threshold_lower(a) /\ mean <= _threshold_upper(a)

tag_ok(a) ==
    LET mean == elapsed_time_mean(a)
    IN  mean > _threshold_lower(a) /\ mean < _threshold_upper(a)

\* the computed timeout passed on as it is, without the fallback
request_timeout_no_fallback(a) ==
    _threshold_lower(a) + (a.latency * HTTP_LATENCY_TIMOUT_NUM) \div HTTP_LATENCY_TIMOUT_DEN

\* the timeout Auth._request hands to requests.get
request_timeout(a) ==
    LET timeout == _threshold_lower(a)
                   + (a.latency * HTTP_LATENCY_TIMOUT_NUM) \div HTTP_LATENCY_TIMOUT_DEN
    IN  IF timeout = 0 THEN Ms(FALLBACK_TIMEOUT) ELSE timeout

(***************************************************************************)
(* Auth._request.  What the network does to one call is the input net:     *)
(* the first net.fails attempts raise net.error (ConnectionError or        *)
(* Timeout, handled alike), the next attempt is answered with              *)
(* net.status_code after net.elapsed_time.  The while loop runs with       *)
(* retried = 0, 1, ... and every failed attempt adds one to retried; it    *)
(* returns at the first answered attempt, and is left by break, to         *)
(* exit(-1), when retried reaches HTTP_MAX_RETRIES.  The outcome is        *)
(* [exit, attempts, result], attempts counting the calls of requests.get.  *)
(***************************************************************************)
None == [none |-> TRUE]

\* a loop that allows one attempt more than the ceiling
retries_left_inclusive(retried) == retried <= HTTP_MAX_RETRIES

\* "retried < HTTP_MAX_RETRIES": the loop condition and the test after "retried += 1"
retries_left(retried) == retried < HTTP_MAX_RETRIES

\* program2.py's ending of the same loop: "return None" where program.py has exit(-1)
RequestReturnsNone(retried) == [exit |-> FALSE, attempts |-> retried, result |-> None]

\* the loop was left by break: exit(-1)
RequestExit(retried) == [exit |-> TRUE, attempts |-> retried, result |-> None]

_request(net) ==
    IF net.fails < HTTP_MAX_RETRIES
    THEN [exit |-> FALSE, attempts |-> net.fails + 1,
          result |-> [status_code |-> net.status_code,
                      elapsed_time |-> net.elapsed_time]]
    ELSE RequestExit(HTTP_MAX_RETRIES)

(***************************************************************************)
(* Auth.__init__ with Auth._run: sample_size requests, one after the       *)
(* other; nets[i] is what the network does to the i-th.  The outcome is    *)
(* [exit, attempts, auth]: exit(-1) in a request ends the construction.    *)
(***************************************************************************)
\* a TestResult, as opposed to None
IsResult(result) == "status_code" \in DOMAIN result

RECURSIVE run_loop(_, _, _, _)
run_loop(a, nets, i, attempts) ==
    IF i > TEST_SAMPLE_SIZE
    THEN [exit |-> FALSE, attempts |-> attempts, auth |-> a]
    ELSE LET r == _request(nets[i])
         IN  IF r.exit
             THEN [exit |-> TRUE, attempts |-> attempts + r.attempts, auth |-> a]
             ELSE run_loop(IF IsResult(r.result)
                           THEN [a EXCEPT !.test_results = Append(@, r.result)]
                           ELSE a,
                           nets, i + 1, attempts + r.attempts)

Auth(delay, tag, lat, nets) ==
    run_loop([delay |-> delay, tag |-> tag, latency |-> lat, test_results |-> <<>>],
             nets, 1, 0)

\* full_byte_range_with_prefix: the tag of candidate byte x
full_byte_range_with_prefix(prefix) == [x \in 0..(BYTE_RANGE - 1) |-> Append(prefix, x)]

(***************************************************************************)
(* The session: __main__ and run().                                        *)
(***************************************************************************)
NoAuth == [delay |-> 0, tag |-> <<>>, latency |-> 0, test_results |-> <<>>]

\* no _request call under way, no plan, program2.py not started
NoReq == [pc |-> "idle", retried |-> 0, attempts |-> 0, sleeps |-> 0,
          event |-> "none", result |-> None]

NoP2 == [pc |-> "idle", latency |-> 0, auths |-> <<>>, iterations |-> 0, probes |-> 0]

OthersIdle == req = NoReq /\ plan = <<>> /\ p2 = NoP2

AllBytes == 0..(BYTE_RANGE - 1)

\* every request of a construction finds the network down on every attempt
NetworkDown(nets) == \A i \in 1..Len(nets) : nets[i].fails >= HTTP_MAX_RETRIES

\* the calibration probe of lines 219 and 238
Calibration(nets) == Auth(0, <<0>>, Ms(CALIBRATION_LATENCY_MS), nets)

\* the latency of the finished round handed on unchanged
next_latency_stale(cal, old_latency) == old_latency

\* line 219: the latency handed to the next run()
next_latency(cal, old_latency) == elapsed_time_mean(cal)

\* the single candidate not taken over
next_tag_prefix_stay(oks, old_prefix) == old_prefix

\* the tag of the first rejected candidate taken over (auth_not_ok[0].tag)
next_tag_prefix_not_ok(oks, old_prefix) ==
    IF Len(oks) = 1
    THEN Append(old_prefix, IF oks[1] = Append(old_prefix, 0) THEN 1 ELSE 0)
    ELSE old_prefix

\* lines 221-229: the tag_prefix handed to the next run()
next_tag_prefix(oks, old_prefix) ==
    IF Len(oks) = 1 THEN oks[1]
    ELSE IF Len(oks) > 1 THEN old_prefix
    ELSE old_prefix

\* a run() that gives up at the second ambiguous round in a row
round_outcome_stall_limit(oks, n_stalls) ==
    IF Len(oks) # 1 /\ n_stalls >= 1 THEN "failed" ELSE "rerun"

\* lines 221-229: what run() does once the round is classified; there is no
\* branch that gives up
round_outcome(oks, n_stalls) == "rerun"

\* run() up to the wait on as_completed: all 256 candidates are submitted
StartRun(prefix, lat) ==
    /\ pc' = "collect"
    /\ tag_prefix' = prefix
    /\ latency' = lat
    /\ pending' = AllBytes
    /\ auth_ok' = <<>>
    /\ auth_not_ok' = 0
    /\ round' = round + 1
    /\ dispatched' = dispatched + BYTE_RANGE

Exit(attempts) ==
    /\ pc' = "aborted"
    /\ exited' = attempts
    /\ UNCHANGED <<tag_prefix, latency, auth_ok, auth_not_ok, url, round, stalls,
                   last, dispatched>>

\* __main__: the first calibration, then run(user, delay, [], latency)
Main(nets) ==
    /\ pc = "main"
    /\ LET cal == Calibration(nets)
       IN  /\ calibrated' = [seq |-> calibrated.seq + 1,
                             mean |-> IF cal.exit THEN calibrated.mean
                                      ELSE SumElapsed(cal.auth.test_results) \div TEST_SAMPLE_SIZE,
                             down |-> NetworkDown(nets)]
           /\ IF cal.exit
              THEN Exit(cal.attempts) /\ UNCHANGED pending
              ELSE IF elapsed_time_mean(cal.auth) > 0
                   THEN /\ StartRun(<<>>, elapsed_time_mean(cal.auth))
                        /\ UNCHANGED <<url, stalls, last, exited>>
                   ELSE /\ pc' = "nolatency"
                        /\ UNCHANGED <<tag_prefix, latency, pending, auth_ok, auth_not_ok,
                                       url, round, stalls, last, exited, dispatched>>
    /\ UNCHANGED <<secret, auth, out, req, plan, p2>>

\* lines 204-214: as_completed yields the future of candidate byte c, whose
\* probes met nets.  A worker takes the candidates in order, so c can have
\* finished only if fewer than CONCURRENT_WORKERS earlier ones have not.
ProcessCompleted(c, nets) ==
    /\ pc = "collect"
    /\ c \in pending
    /\ Cardinality({d \in pending : d < c}) < CONCURRENT_WORKERS
    /\ pending' = pending \ {c}
    /\ LET r == Auth(Ms(DELAY_MS), full_byte_range_with_prefix(tag_prefix)[c], latency, nets)
           auth_attempt == r.auth
       IN  IF r.exit
           THEN Exit(r.attempts)
           ELSE /\ last' = auth_attempt
                /\ UNCHANGED <<tag_prefix, latency, round, stalls, exited, dispatched>>
                /\ IF ok(auth_attempt)
                   THEN /\ pc' = "completed"
                        /\ url' = Auth_url(auth_attempt)
                        /\ UNCHANGED <<auth_ok, auth_not_ok>>
                   ELSE IF tag_ok(auth_attempt)
                        THEN /\ auth_ok' = Append(auth_ok, auth_attempt.tag)
                             /\ UNCHANGED <<pc, url, auth_not_ok>>
                        ELSE /\ auth_not_ok' = auth_not_ok + 1
                             /\ UNCHANGED <<pc, url, auth_ok>>
    /\ UNCHANGED <<calibrated, secret, auth, out, req, plan, p2>>

\* leaving the collecting loop as soon as one future has been looked at
as_completed_first(p) == p # AllBytes

\* the for loop over as_completed(uncompleted_futures) ends when it has
\* yielded every future of the round
as_completed_exhausted(p) == p = {}

\* lines 216-229: every future has been looked at; recalibrate and recurse
Decide(nets, limit) ==
    /\ pc = "collect"
    /\ as_completed_exhausted(pending)
    /\ round < limit
    /\ LET cal == Calibration(nets)
       IN  /\ calibrated' = [seq |-> calibrated.seq + 1,
                             mean |-> IF cal.exit THEN calibrated.mean
                                      ELSE SumElapsed(cal.auth.test_results) \div TEST_SAMPLE_SIZE,
                             down |-> NetworkDown(nets)]
           /\ IF cal.exit
              THEN Exit(cal.attempts) /\ UNCHANGED pending
              ELSE IF round_outcome(auth_ok, stalls) = "rerun"
                   THEN /\ StartRun(next_tag_prefix(auth_ok, tag_prefix),
                                    next_latency(cal.auth, latency))
                        /\ stalls' = IF Len(auth_ok) = 1 THEN 0 ELSE stalls + 1
                        /\ UNCHANGED <<url, last, exited>>
                   ELSE /\ pc' = "failed"
                        /\ UNCHANGED <<tag_prefix, latency, pending, auth_ok, auth_not_ok,
                                       url, round, stalls, last, exited, dispatched>>
    /\ UNCHANGED <<secret, auth, out, req, plan, p2>>

(***************************************************************************)
(* What the network and the server may do.                                 *)
(***************************************************************************)
MaxRounds == 3

Answer(status, ms) ==
    [fails |-> 0, error |-> "none", status_code |-> status, elapsed_time |-> Ms(ms)]

Failing(k, err, status, ms) ==
    [fails |-> k, error |-> err, status_code |-> status, elapsed_time |-> Ms(ms)]

Errors == {"ConnectionError", "Timeout"}

\* retries: none, one, the last attempt answered, the ceiling reached
FailCounts == {1, HTTP_MAX_RETRIES - 1, HTTP_MAX_RETRIES}

Same(n) == <<n, n, n, n>>

\* the candidates whose probes the server may answer in any way, and that may
\* finish out of turn; the others are answered fast and finish in order
Distinguished == {9, 144}

\* all samples alike; one success among failures to match; one fast sample
\* among slow ones; retries before the first sample
CandidateNets ==
    {Same(Answer(401, e)) : e \in {50, 150, 250}}
    \cup {Same(Answer(STATUS_OK, e)) : e \in {50, 150}}
    \cup {<<Answer(STATUS_OK, 150), Answer(401, 150), Answer(401, 150), Answer(401, 150)>>,
          <<Answer(401, 50), Answer(401, 150), Answer(401, 150), Answer(401, 150)>>}
    \cup {<<Failing(k, err, 401, 150), Answer(401, 150), Answer(401, 150), Answer(401, 150)>> :
            k \in FailCounts, err \in Errors}

OrdinaryNets == {Same(Answer(401, 50))}

CalibrationNets ==
    {Same(Answer(401, e)) : e \in {0, 50}}
    \cup {<<Failing(k, err, 401, 50), Answer(401, 50), Answer(401, 50), Answer(401, 50)>> :
            k \in FailCounts, err \in Errors}
    \cup {Same(Failing(HTTP_MAX_RETRIES, err, 401, 50)) : err \in Errors}

Min(S) == CHOOSE x \in S : \A y \in S : x <= y

\* the futures as_completed may yield next
MayComplete ==
    (pending \cap Distinguished)
    \cup (IF pending \ Distinguished = {} THEN {} ELSE {Min(pending \ Distinguished)})

Init ==
    /\ OthersIdle
    /\ pc = "main"
    /\ tag_prefix = <<>>
    /\ latency = 0
    /\ pending = {}
    /\ auth_ok = <<>>
    /\ auth_not_ok = 0
    /\ url = <<>>
    /\ round = 0
    /\ stalls = 0
    /\ last = NoAuth
    /\ calibrated = [seq |-> 0, mean |-> 0, down |-> FALSE]
    /\ exited = 0
    /\ dispatched = 0
    /\ secret = <<>>
    /\ auth = NoAuth
    /\ out = <<>>

Next ==
    \/ \E nets \in CalibrationNets : Main(nets)
    \/ \E c \in MayComplete :
          \E nets \in (IF c \in Distinguished THEN CandidateNets ELSE OrdinaryNets) :
             ProcessCompleted(c, nets)
    \/ \E nets \in CalibrationNets : Decide(nets, MaxRounds)

Spec == Init /\ [][Next]_vars

(***************************************************************************)
(* The noise-free server of the recovery scenarios: it decodes the 32 hex  *)
(* characters it is sent into 16 bytes, answers 200 when they are the      *)
(* secret (followed by zero bytes) and otherwise 401, after the delay of   *)
(* the URL for every leading byte that matches the secret plus the         *)
(* baseline latency.                                                       *)
(***************************************************************************)
MaxOracleRounds == 17

\* baseline latency of the scenario, 50 ms
BaselineMs == DELAY_MS \div 2

HexValue(ch) == (CHOOSE i \in 1..16 : HexDigits[i] = ch) - 1

\* the byte the i-th pair of hex characters of wire denotes
WireByte(wire, i) == 16 * HexValue(wire[2 * i - 1]) + HexValue(wire[2 * i])

WireBytes(wire) == [i \in 1..(Len(wire) \div 2) |-> WireByte(wire, i)]

commonPrefixLength(sent, sec) ==
    Cardinality({n \in 1..Len(sec) :
                    n <= Len(sent) /\ \A i \in 1..n : sent[i] = sec[i]})

SecretBytes(sec) == [i \in 1..(tag_max_length \div 2) |-> IF i <= Len(sec) THEN sec[i] ELSE 0]

OracleAnswer(delay_ms, tag, sec) ==
    LET sent == WireBytes(tag_as_string(tag))
    IN  Answer(IF sent = SecretBytes(sec) THEN STATUS_OK ELSE 401,
               delay_ms * commonPrefixLength(sent, sec) + BaselineMs)

Secrets ==
    { <<9>>, <<144>>, <<33>>, <<144, 32>>, <<33, 49>>, <<33, 0, 48>>, <<0, 33>>,
      [i \in 1..16 |-> 32 + i] }

InitOracle ==
    /\ OthersIdle
    /\ pc = "main"
    /\ tag_prefix = <<>>
    /\ latency = 0
    /\ pending = {}
    /\ auth_ok = <<>>
    /\ auth_not_ok = 0
    /\ url = <<>>
    /\ round = 0
    /\ stalls = 0
    /\ last = NoAuth
    /\ calibrated = [seq |-> 0, mean |-> 0, down |-> FALSE]
    /\ exited = 0
    /\ dispatched = 0
    /\ secret \in Secrets
    /\ auth = NoAuth
    /\ out = <<>>

NextOracle ==
    \/ Main(Same(OracleAnswer(0, <<0>>, secret)))
    \/ \E c \in MayComplete :
          ProcessCompleted(c, Same(OracleAnswer(DELAY_MS, Append(tag_prefix, c), secret)))
    \/ Decide(Same(OracleAnswer(0, <<0>>, secret)), MaxOracleRounds)

SpecOracle == InitOracle /\ [][NextOracle]_vars

(***************************************************************************)
(* A server that leaks the same timing but accepts nothing: every answer   *)
(* is 401, whatever the tag (the account is locked, say), after the delay  *)
(* of the URL for every leading byte that matches its secret plus the      *)
(* baseline latency.                                                       *)
(***************************************************************************)
LeakAnswer(delay_ms, tag, sec) ==
    [OracleAnswer(delay_ms, tag, sec) EXCEPT !.status_code = 401]

\* sixteen bytes that have two hex digits each, none of them ending in 0
LeakSecret == [i \in 1..(tag_max_length \div 2) |-> IF i = 16 THEN 49 ELSE 32 + i]

InitLeak ==
    /\ OthersIdle
    /\ pc = "main"
    /\ tag_prefix = <<>>
    /\ latency = 0
    /\ pending = {}
    /\ auth_ok = <<>>
    /\ auth_not_ok = 0
    /\ url = <<>>
    /\ round = 0
    /\ stalls = 0
    /\ last = NoAuth
    /\ calibrated = [seq |-> 0, mean |-> 0, down |-> FALSE]
    /\ exited = 0
    /\ dispatched = 0
    /\ secret = LeakSecret
    /\ auth = NoAuth
    /\ out = <<>>

NextLeak ==
    \/ Main(Same(LeakAnswer(0, <<0>>, secret)))
    \/ \E c \in MayComplete :
          ProcessCompleted(c, Same(LeakAnswer(DELAY_MS, Append(tag_prefix, c), secret)))
    \/ Decide(Same(LeakAnswer(0, <<0>>, secret)), MaxOracleRounds)

SpecLeak == InitLeak /\ [][NextLeak]_vars

(***************************************************************************)
(* Rounds whose probe outcomes are fixed beforehand: plan says what the    *)
(* network does to the four requests of each distinguished candidate,      *)
(* every other candidate is answered 401 after the baseline latency, and   *)
(* only the order in which as_completed yields the futures is left open.   *)
(***************************************************************************)
MaxOrderRounds == 2

\* rejected, timing consistent, accepted, retries exhausted
PlanNets ==
    {Same(Answer(401, 50)), Same(Answer(401, 150)), Same(Answer(STATUS_OK, 150)),
     Same(Failing(HTTP_MAX_RETRIES, "ConnectionError", 401, 150))}

PlanNet(c) == IF c \in DOMAIN plan THEN plan[c] ELSE Same(Answer(401, 50))

InitOrder ==
    /\ pc = "main"
    /\ tag_prefix = <<>>
    /\ latency = 0
    /\ pending = {}
    /\ auth_ok = <<>>
    /\ auth_not_ok = 0
    /\ url = <<>>
    /\ round = 0
    /\ stalls = 0
    /\ last = NoAuth
    /\ calibrated = [seq |-> 0, mean |-> 0, down |-> FALSE]
    /\ exited = 0
    /\ dispatched = 0
    /\ secret = <<>>
    /\ auth = NoAuth
    /\ out = <<>>
    /\ req = NoReq
    /\ p2 = NoP2
    /\ plan \in [Distinguished -> PlanNets]

NextOrder ==
    \/ Main(Same(Answer(401, 50)))
    \/ \E c \in MayComplete : ProcessCompleted(c, PlanNet(c))
    \/ Decide(Same(Answer(401, 50)), MaxOrderRounds)

SpecOrder == InitOrder /\ [][NextOrder]_vars

(***************************************************************************)
(* Auth's pure methods on their own: an Auth object is drawn, and          *)
(* tag_as_string or the classification (ok, tag_ok) is applied to it.      *)
(***************************************************************************)
NoOutput == [op |-> "none", string |-> <<>>, ok |-> FALSE, tag_ok |-> FALSE, timeout |-> 0]

\* every one-byte tag, the empty tag, some longer ones up to 16 bytes, and
\* tags with an integer outside 0..255
CodecTags ==
    {<<b>> : b \in AllBytes}
    \cup {<<>>, <<0, 0>>, <<9, 144>>, <<255, 1, 16>>,
          [i \in 1..16 |-> 16 * (i - 1) + (16 - i)], [i \in 1..16 |-> 255]}
    \cup {<<BYTE_RANGE>>, <<-1>>, <<9, 300>>, <<4096, 1>>}

ClassifierTags == {<<>>, <<9>>, <<9, 144>>}

ClassifierLatenciesMs == {0, 50, CALIBRATION_LATENCY_MS}

\* mean elapsed times around the bands of the delays and latencies above
ClassifierElapsedMs ==
    {0, 45, 50, 55, 95, 100, 105, 145, 150, 155, 195, 200, 245, 250, 255, 260}
    \cup {e + d : e \in {1203, 1204, 1337, 1470, 1471}, d \in {0, DELAY_MS}}

ClassifierResults ==
    {Same([status_code |-> st, elapsed_time |-> Ms(e)]) :
        st \in {STATUS_OK, 400, 401}, e \in ClassifierElapsedMs}
    \cup {<<[status_code |-> 401, elapsed_time |-> Ms(e) - 4],
            [status_code |-> STATUS_OK, elapsed_time |-> Ms(e) + 4],
            [status_code |-> 401, elapsed_time |-> Ms(e) + 8],
            [status_code |-> 401, elapsed_time |-> Ms(e) - 4]>> :
          e \in {145, 150, 155}}

InitAuth ==
    /\ OthersIdle
    /\ pc = "unit"
    /\ tag_prefix = <<>>
    /\ latency = 0
    /\ pending = {}
    /\ auth_ok = <<>>
    /\ auth_not_ok = 0
    /\ url = <<>>
    /\ round = 0
    /\ stalls = 0
    /\ last = NoAuth
    /\ calibrated = [seq |-> 0, mean |-> 0, down |-> FALSE]
    /\ exited = 0
    /\ dispatched = 0
    /\ secret = <<>>
    /\ out = NoOutput
    /\ \/ \E t \in CodecTags :
             auth = [delay |-> Ms(DELAY_MS), tag |-> t, latency |-> Ms(50),
                     test_results |-> <<>>]
       \/ \E t \in ClassifierTags, d \in {0, DELAY_MS}, l \in ClassifierLatenciesMs,
             rs \in ClassifierResults :
             auth = [delay |-> Ms(d), tag |-> t, latency |-> Ms(l), test_results |-> rs]

\* self.tag_as_string()
Encode ==
    /\ pc = "unit"
    /\ out.op = "none"
    /\ out' = [NoOutput EXCEPT !.op = "tag_as_string", !.string = tag_as_string(auth.tag)]
    /\ UNCHANGED <<sessionVars, auth, req, plan, p2>>

\* self.ok() and self.tag_ok(), as run() asks them of a finished Auth
Classify ==
    /\ pc = "unit"
    /\ out.op = "none"
    /\ auth.test_results # <<>>
    /\ out' = [NoOutput EXCEPT !.op = "classify", !.ok = ok(auth), !.tag_ok = tag_ok(auth)]
    /\ UNCHANGED <<sessionVars, auth, req, plan, p2>>

\* the timeout self._request() passes to requests.get (lines 140-142)
Timeout ==
    /\ pc = "unit"
    /\ out.op = "none"
    /\ out' = [NoOutput EXCEPT !.op = "_request", !.timeout = request_timeout(auth)]
    /\ UNCHANGED <<sessionVars, auth, req, plan, p2>>

NextAuth == Encode \/ Classify \/ Timeout

SpecAuth == InitAuth /\ [][NextAuth]_vars

(***************************************************************************)
(* Auth._request attempt by attempt: the while loop of one call, each      *)
(* requests.get either answering or raising ConnectionError or Timeout.    *)
(* req.pc is "loop" at the loop head, "returned" after "return             *)
(* TestResult(...)" and "exit" after exit(-1).  The loop is only ever left *)
(* by return or by break, so the loop head is never reached with the       *)
(* condition false.                                                        *)
(***************************************************************************)
SessionIdle ==
    /\ pc = "unit"
    /\ tag_prefix = <<>>
    /\ latency = 0
    /\ pending = {}
    /\ auth_ok = <<>>
    /\ auth_not_ok = 0
    /\ url = <<>>
    /\ round = 0
    /\ stalls = 0
    /\ last = NoAuth
    /\ calibrated = [seq |-> 0, mean |-> 0, down |-> FALSE]
    /\ exited = 0
    /\ dispatched = 0
    /\ secret = <<>>

RequestAnswers ==
    {[status_code |-> st, elapsed_time |-> Ms(e)] : st \in {STATUS_OK, 401}, e \in {50, 150}}

InitRequest ==
    /\ SessionIdle
    /\ out = NoOutput
    /\ plan = <<>>
    /\ p2 = NoP2
    /\ auth \in {[delay |-> 0, tag |-> <<0>>, latency |-> Ms(CALIBRATION_LATENCY_MS),
                  test_results |-> <<>>],
                 [delay |-> Ms(DELAY_MS), tag |-> <<9>>, latency |-> Ms(50),
                  test_results |-> <<>>]}
    /\ req = [NoReq EXCEPT !.pc = "loop"]

\* requests.get returns a response: return TestResult(...)
AttemptAnswered(answer) ==
    /\ req.pc = "loop"
    /\ retries_left(req.retried)
    /\ req' = [req EXCEPT !.pc = "returned", !.attempts = @ + 1,
                          !.event = "response", !.result = answer]
    /\ UNCHANGED <<sessionVars, auth, out, plan, p2>>

\* requests.get raises err: retried += 1, then sleep and loop, or break and exit(-1)
AttemptFails(err) ==
    /\ req.pc = "loop"
    /\ retries_left(req.retried)
    /\ LET retried == req.retried + 1
       IN  req' = [req EXCEPT !.pc = IF retries_left(retried) THEN "loop" ELSE "exit",
                              !.retried = retried,
                              !.attempts = @ + 1,
                              !.sleeps = IF retries_left(retried) THEN @ + 1 ELSE @,
                              !.event = err]
    /\ UNCHANGED <<sessionVars, auth, out, plan, p2>>

NextRequest ==
    \/ \E answer \in RequestAnswers : AttemptAnswered(answer)
    \/ \E err \in Errors : AttemptFails(err)

SpecRequest == InitRequest /\ [][NextRequest]_vars

(***************************************************************************)
(* program2.py: run(user, delay, []) up to its "return".  An Auth of       *)
(* program2.py keeps the elapsed time and the status of its last answered  *)
(* request; p2.auths maps the candidate bytes still in the list auths to   *)
(* these two fields.  p2.probes is the number of auth.run calls the last   *)
(* iteration of the while loop submitted.                                  *)
(***************************************************************************)
\* THRESHOLD_LATENCY_FACTOR = 0.2 = 1 / THRESHOLD_LATENCY_DIV
THRESHOLD_LATENCY_DIV == 5

MaxIterations == 3

\* Auth.__init__ of program2.py: self.threshold
Auth2_threshold(tag, delay, lat) ==
    LET threshold_base == _tag_length(tag) * delay + lat
    IN  threshold_base - lat \div THRESHOLD_LATENCY_DIV

\* Auth.ok of program2.py
Auth2_ok(a, threshold) == a.status_code = STATUS_OK \/ a.elapsed_time >= threshold

\* Auth.run of program2.py: the first answer sets elapsed_time and
\* status_code; after HTTP_MAX_RETRIES failures it returns None and leaves
\* them as they were
Auth2_run(a, net) ==
    IF net.fails < HTTP_MAX_RETRIES
    THEN [elapsed_time |-> net.elapsed_time, status_code |-> net.status_code]
    ELSE a

NewAuth2 == [elapsed_time |-> 0, status_code |-> 0]

\* len([x for x in auths if x.ok()])
OkCount(auths, lat) ==
    Cardinality({c \in DOMAIN auths :
                    Auth2_ok(auths[c], Auth2_threshold(<<c>>, Ms(DELAY_MS), lat))})

\* candidates whose answers are left open; the others get 401 after 50 ms
Distinguished2 == {9, 33, 144}

Nets2 ==
    {Answer(401, 50), Answer(401, 150), Answer(STATUS_OK, 50),
     Failing(HTTP_MAX_RETRIES, "Timeout", 401, 150)}

LatencyNets2 ==
    {Same(Answer(401, 50)), Same(Answer(401, 0)),
     <<Answer(401, 50), Answer(401, 150), Answer(401, 150), Answer(401, 50)>>,
     Same(Failing(HTTP_MAX_RETRIES, "ConnectionError", 401, 50))}

InitNarrow ==
    /\ SessionIdle
    /\ auth = NoAuth
    /\ out = NoOutput
    /\ req = NoReq
    /\ plan = <<>>
    /\ p2 = [NoP2 EXCEPT !.pc = "start"]

\* lines 147-158: four latency tests, then the 256 Auth objects
Prepare(nets) ==
    /\ p2.pc = "start"
    /\ LET latency_test(i) == Auth2_run(NewAuth2, nets[i])
           latencies == [i \in 1..4 |-> latency_test(i)]
       IN  p2' = [p2 EXCEPT !.pc = "loop",
                            !.latency = SumElapsed(latencies) \div 4,
                            !.auths = [c \in AllBytes |-> NewAuth2]]
    /\ UNCHANGED <<sessionVars, auth, out, req, plan>>

\* one iteration of the while loop, lines 164-171: every Auth of auths is
\* run in the pool, and when all have finished the list is cut down to those
\* that are ok()
Iterate(nets) ==
    /\ p2.pc = "loop"
    /\ OkCount(p2.auths, p2.latency) # 1
    /\ p2.iterations < MaxIterations
    /\ LET ran == [c \in DOMAIN p2.auths |->
                     Auth2_run(p2.auths[c],
                               IF c \in DOMAIN nets THEN nets[c] ELSE Answer(401, 50))]
           kept == {c \in DOMAIN ran :
                      Auth2_ok(ran[c], Auth2_threshold(<<c>>, Ms(DELAY_MS), p2.latency))}
       IN  p2' = [p2 EXCEPT !.auths = [c \in kept |-> ran[c]],
                            !.iterations = @ + 1,
                            !.probes = Cardinality(DOMAIN p2.auths)]
    /\ UNCHANGED <<sessionVars, auth, out, req, plan>>

\* the loop condition is false: return "ee"
Return ==
    /\ p2.pc = "loop"
    /\ OkCount(p2.auths, p2.latency) = 1
    /\ p2' = [p2 EXCEPT !.pc = "returned"]
    /\ UNCHANGED <<sessionVars, auth, out, req, plan>>

NextNarrow ==
    \/ \E nets \in LatencyNets2 : Prepare(nets)
    \/ \E nets \in [Distinguished2 -> Nets2] : Iterate(nets)
    \/ Return

SpecNarrow == InitNarrow /\ [][NextNarrow]_vars

(***************************************************************************)
(* Properties.                                                             *)
(***************************************************************************)
RoundClassified == pc = "collect" /\ pending = {}

Has200(results) == \E i \in 1..Len(results) : results[i].status_code = 200

MeanOf(results) == SumElapsed(results) \div Len(results)

\* C1: with secret [0x09], delay 100 ms and baseline latency 50 ms, the round
\* started from the empty prefix classifies candidate 0x09 as timing
\* consistent and the 255 others as rejected, and run() advances to [0x09].
C1_ScenarioAdvances ==
    (secret = <<9>> /\ latency = Ms(50)) =>
        /\ (RoundClassified /\ round = 1) =>
              (auth_ok = << <<9>> >> /\ auth_not_ok = BYTE_RANGE - 1)
        /\ (round >= 2) => (tag_prefix # <<>> /\ tag_prefix[1] = 9)

\* C2: under the noise-free server run() returns the URL of the secret's tag
\* and needs at most as many rounds as the secret has bytes.
C2_RecoveredWithinLength ==
    /\ round <= Len(secret)
    /\ (pc = "completed") => (WireBytes(url) = SecretBytes(secret))

C4_RoundTrip ==
    (out.op = "tag_as_string" /\ 2 * Len(auth.tag) <= tag_max_length
        /\ \A i \in 1..Len(auth.tag) : auth.tag[i] \in AllBytes) =>
       \A i \in 1..Len(auth.tag) : WireByte(out.string, i) = auth.tag[i]

\* C5: at the end of a round no two tags of auth_ok have the same wire string.
C5_UniqueWireStrings ==
    RoundClassified =>
        \A i, j \in 1..Len(auth_ok) :
            (i # j) => (tag_as_string(auth_ok[i]) # tag_as_string(auth_ok[j]))

\* C6: looking at a finished candidate ends the search, with that candidate's
\* URL, exactly when one of its samples has status 200, whatever its times.
C6_SuccessOnlyOn200 ==
    [][ (pc = "collect" /\ pending' # pending /\ pending' \subseteq pending
           /\ pc' # "aborted") =>
          /\ \E c \in pending : pending' = pending \ {c} /\ last'.tag = Append(tag_prefix, c)
          /\ (pc' = "completed") <=> Has200(last'.test_results)
          /\ (pc' = "completed") => (url' = tag_as_string(last'.tag))
          /\ (pc' # "completed") => (pc' = "collect" /\ url' = url) ]_vars

\* a search ended by a candidate whose times are far below the band
C6_Witness ==
    /\ pc = "completed"
    /\ Has200(last.test_results)
    /\ MeanOf(last.test_results) = Ms(50)
    /\ last.latency = Ms(50)

\* C7 as stated: tag_ok() holds on the closed band and fails below it.
C7_ClosedBand ==
    (out.op = "classify") =>
        LET mean      == MeanOf(auth.test_results)
            expected  == auth.delay * Len(auth.tag) + auth.latency
            tolerance == auth.latency \div HTTP_LATENCY_THRESHOLD_DIV
        IN  /\ (expected - tolerance <= mean /\ mean <= expected + tolerance) => out.tag_ok
            /\ (mean < expected - tolerance) => ~out.tag_ok

\* C7 as amended: tag_ok() holds exactly strictly inside the band.
C7_OpenBand ==
    (out.op = "classify") =>
        LET mean      == MeanOf(auth.test_results)
            expected  == auth.delay * Len(auth.tag) + auth.latency
            tolerance == auth.latency \div HTTP_LATENCY_THRESHOLD_DIV
        IN  out.tag_ok <=> (expected - tolerance < mean /\ mean < expected + tolerance)

\* a mean one tick inside the lower end of a band
C7_Witness ==
    /\ out.op = "classify"
    /\ out.tag_ok
    /\ MeanOf(auth.test_results) - 1
          = auth.delay * Len(auth.tag) + auth.latency
            - auth.latency \div HTTP_LATENCY_THRESHOLD_DIV

\* C8: a round with exactly one timing-consistent candidate (and no 200) is
\* followed by a round whose prefix is the old one plus that candidate's byte.
C8_Advances ==
    [][ (RoundClassified /\ Len(auth_ok) = 1 /\ pc' = "collect") =>
          LET n == Len(tag_prefix)
              candidate == auth_ok[1]
          IN  /\ Len(candidate) = n + 1
              /\ Len(tag_prefix') = n + 1
              /\ SubSeq(tag_prefix', 1, n) = tag_prefix
              /\ tag_prefix'[n + 1] = candidate[n + 1]
              /\ pending' = AllBytes ]_vars

C8_Witness == pc = "collect" /\ round = 3 /\ Len(tag_prefix) = 2 /\ stalls = 0

\* C9: an ambiguous round is followed by a round with the same prefix and
\* with the latency a calibration made after it measured.
C9_RetriesSamePrefix ==
    [][ (RoundClassified /\ Len(auth_ok) # 1 /\ pc' = "collect") =>
          /\ tag_prefix' = tag_prefix
          /\ calibrated'.seq = calibrated.seq + 1
          /\ latency' = calibrated'.mean
          /\ pending' = AllBytes ]_vars

\* a second round on the empty prefix whose latency differs from the first's
C9_Witness ==
    /\ pc = "collect" /\ round = 2 /\ stalls = 1 /\ tag_prefix = <<>>
    /\ latency = 0 /\ calibrated.seq = 2

\* C10: a calibration that finds the network down on every attempt ends the
\* session after HTTP_MAX_RETRIES attempts, and nothing is dispatched after.
C10_CalibrationFailureEnds ==
    [][ /\ calibrated'.down =>
              (pc' = "aborted" /\ exited' = HTTP_MAX_RETRIES /\ dispatched' = dispatched)
        /\ (pc = "aborted") => (pc' = "aborted" /\ dispatched' = dispatched) ]_vars

C10_Witness ==
    /\ pc = "aborted" /\ calibrated.down /\ exited = HTTP_MAX_RETRIES
    /\ round >= 1 /\ dispatched = round * BYTE_RANGE

\* C11: one call of _request makes at most HTTP_MAX_RETRIES network attempts;
\* an attempt that raises ConnectionError or Timeout uses up exactly one
\* attempt and is followed by another attempt while the ceiling is not
\* reached; the first response ends the loop and is what is returned; at the
\* ceiling the call ends in exit(-1) with no TestResult, and nothing follows a
\* return or an exit.
C11_RetryCeiling ==
    [][/\ req.pc = "loop"
       /\ req'.attempts = req.attempts + 1
       /\ req'.attempts <= HTTP_MAX_RETRIES
       /\ (req'.event \in Errors)
            => /\ req'.retried = req.retried + 1
               /\ req'.attempts = req'.retried
               /\ req'.result = None
               /\ (req'.retried < HTTP_MAX_RETRIES) => (req'.pc = "loop")
               /\ (req'.retried >= HTTP_MAX_RETRIES) => (req'.pc = "exit")
       /\ (req'.event = "response")
            => /\ req'.pc = "returned"
               /\ req'.result \in RequestAnswers
               /\ req'.retried = req.retried
       /\ (req'.pc = "exit")
            => /\ req'.attempts = HTTP_MAX_RETRIES
               /\ req'.event \in Errors
               /\ ~IsResult(req'.result)]_req

\* the hundredth attempt failed and the call ended in exit(-1)
C11_Witness ==
    /\ req.pc = "exit"
    /\ req.attempts = HTTP_MAX_RETRIES
    /\ req.event \in Errors

\* C12: run() recalibrates and decides between advancing and retrying only
\* after all 256 candidate probes of the round have finished: a step that
\* starts the next round, changes the confirmed prefix or runs the
\* recalibration is taken with no candidate pending and with every candidate
\* of the round classified.
C12_RoundBarrier ==
    [][(pc = "collect" /\ (round' # round \/ tag_prefix' # tag_prefix
                           \/ calibrated' # calibrated \/ latency' # latency))
         => /\ pending = {}
            /\ Len(auth_ok) + auth_not_ok = BYTE_RANGE]_vars

\* both kinds of decision have been taken: one round advanced the prefix and
\* a later one was retried
C12_Witness ==
    /\ round = 3
    /\ pending = AllBytes
    /\ Len(tag_prefix) = 1
    /\ stalls = 1

\* C13: whatever the server does, in every reachable state the confirmed
\* prefix has at most 16 bytes and the tag string of every probe sent (the
\* one the main thread looked at last among them) has exactly 32 characters.
C13_LengthInvariant ==
    /\ Len(tag_prefix) <= tag_max_length \div 2
    /\ last # NoAuth => Len(tag_as_string(last.tag)) = tag_max_length

\* C14: tag_as_string() applied to a tag with an integer outside [0,255]
\* ends in an encoding error and produces no wire string.
C14_OutOfRangeRejected ==
    (out.op # "none" /\ \E i \in 1..Len(auth.tag) : auth.tag[i] \notin AllBytes)
        => (out.op = "error" /\ out.string = <<>>)

\* how a round on prefix with the planned outcomes ends when as_completed
\* yields the futures in the order of the candidate bytes
InOrderOutcome(prefix, lat) ==
    LET res(c) == Auth(Ms(DELAY_MS), full_byte_range_with_prefix(prefix)[c], lat, PlanNet(c))
        ending == {c \in AllBytes : res(c).exit \/ ok(res(c).auth)}
        oks    == {c \in AllBytes : ~res(c).exit /\ tag_ok(res(c).auth)}
    IN  IF ending # {}
        THEN IF res(Min(ending)).exit THEN <<"abort">>
             ELSE <<"completed", Auth_url(res(Min(ending)).auth)>>
        ELSE IF Cardinality(oks) = 1
             THEN <<"advance", Append(prefix, CHOOSE c \in oks : TRUE)>>
             ELSE <<"retry">>

\* C15: with the outcomes of the 256 probes of a round fixed, the round ends
\* the same way (completed with a URL, advance by a byte, retry, or abort) in
\* whatever order the probes complete: the way it ends when they complete in
\* the order of the candidate bytes.
C15_OrderIndependent ==
    [][(pc = "collect" /\ (pc' # "collect" \/ round' # round))
         => InOrderOutcome(tag_prefix, latency)
              = (IF pc' = "completed" THEN <<"completed", url'>>
                 ELSE IF pc' = "aborted" THEN <<"abort">>
                 ELSE IF tag_prefix' # tag_prefix THEN <<"advance", tag_prefix'>>
                 ELSE <<"retry">>)]_vars

\* C16: under the noise-free server (delay per matching byte larger than the
\* tolerance) the confirmed prefix is never longer than the secret's tag and
\* its hex pairs, as tag_as_string renders them, denote the leading bytes of
\* the secret: run() never advances to a prefix that does not match.
C16_PrefixSound ==
    /\ Ms(DELAY_MS) > latency \div HTTP_LATENCY_THRESHOLD_DIV
    /\ Len(tag_prefix) <= tag_max_length \div 2
    /\ \A i \in 1..Len(tag_prefix) :
          WireByte(tag_body_string(tag_prefix), i) = SecretBytes(secret)[i]

\* fifteen rounds have advanced the prefix
C16_Witness ==
    /\ pc = "collect"
    /\ Len(tag_prefix) = 15
    /\ round = 16

\* C18: for every tag length, delay and latency that are not negative, the
\* timeout _request passes to requests.get is strictly positive and not
\* smaller than the upper threshold delay * length + latency + latency / 10.
C18_TimeoutCoversBand ==
    (out.op = "_request" /\ auth.delay >= 0 /\ auth.latency >= 0) =>
        /\ out.timeout > 0
        /\ out.timeout >= auth.delay * Len(auth.tag) + auth.latency
                            + auth.latency \div HTTP_LATENCY_THRESHOLD_DIV
        /\ out.timeout >= _threshold_upper(auth)

\* the computed timeout was zero and the fallback replaced it
C18_Witness ==
    /\ out.op = "_request"
    /\ auth.latency = 0
    /\ auth.delay * Len(auth.tag) = 0
    /\ out.timeout = Ms(FALLBACK_TIMEOUT)

\* C17: in program2.py every iteration of the narrowing loop submits at
\* least one probe: auths is not empty when an iteration starts, also after
\* a round in which no candidate was ok().
C17_NeverEmpty ==
    /\ (p2.pc = "loop" /\ OkCount(p2.auths, p2.latency) # 1) => DOMAIN p2.auths # {}
    /\ p2.iterations > 0 => p2.probes >= 1

=============================================================================
